---- MODULE Spec2Model ----
(***************************************************************************)
(* Model of the helpike media conversion server: the job store             *)
(* (job_manager.py), the encoder cascade (converter.py) and the HTTP       *)
(* handlers with their background worker (app.py).                         *)
(*                                                                         *)
(* Strings that the code edits (file names, paths) are sequences of        *)
(* tokens: "a.jpg.png" is <<"a", ".jpg", ".png">>; the empty string is     *)
(* <<>>.  Paths under converted/ are written without the directory.        *)
(* Diagnostic texts are <<>> (the empty text) or <<kind, tier>>.           *)
(***************************************************************************)
EXTENDS Integers, Sequences, FiniteSets, TLC

\* ------------------------------------------------------------------ bounds
MaxJobs == 2
MaxVersionLen == 3
MaxExts == 2

JobIds == 1..MaxJobs

\* ------------------------------------------------------- job_manager.py
PENDING == "pendente"
PROCESSING == "processando"
COMPLETED == "concluido"
ERROR == "erro"
JobStatus == {PENDING, PROCESSING, COMPLETED, ERROR}

EmptyStr == <<>>

\* JobData(job_id, original_path, original_size_bytes) with its defaults
JobData(job_id, original_path, original_size) ==
  [job_id |-> job_id,
   status |-> PENDING,
   original_path |-> original_path,
   converted_path |-> EmptyStr,
   original_size_bytes |-> original_size,
   converted_size_bytes |-> 0,
   error_message |-> EmptyStr]

\* ------------------------------------------------------------ converter.py
VideoExtensions == {".mp4", ".mov", ".avi", ".mkv", ".webm", ".m4v", ".3gp"}
ImageExtensions == {".jpg", ".jpeg", ".png", ".heic", ".heif", ".webp", ".bmp", ".tiff"}

\* extensions written in another case, and str.lower() on an extension
OtherCase == {".MP4", ".Png", ".HEIC"}
Lower(tok) ==
  CASE tok = ".MP4" -> ".mp4"
    [] tok = ".Png" -> ".png"
    [] tok = ".HEIC" -> ".heic"
    [] OTHER -> tok

ExtTokens == VideoExtensions \cup ImageExtensions \cup OtherCase \cup {".avif", ".xyz"}
IsExt(tok) == tok \in ExtTokens

\* Path(p).suffix: the last dotted component, unless it is the whole name
Suffix(p) ==
  IF Len(p) >= 2 /\ IsExt(p[Len(p)]) THEN p[Len(p)] ELSE ""

\* Path(p).stem: the name without its suffix
Stem(p) ==
  IF Suffix(p) = "" THEN p ELSE SubSeq(p, 1, Len(p) - 1)

\* (mutant) get_media_type without lower()
get_media_type_cased(file_path) ==
  LET ext == Suffix(file_path)
  IN IF ext \in VideoExtensions THEN "video"
     ELSE IF ext \in ImageExtensions THEN "image"
     ELSE "video"

get_media_type(file_path) ==
  LET ext == Lower(Suffix(file_path))
  IN IF ext \in VideoExtensions THEN "video"
     ELSE IF ext \in ImageExtensions THEN "image"
     ELSE "video"

\* str.replace(old, new) on a tokenised string
Replace(s, old, new) ==
  [i \in 1..Len(s) |-> IF s[i] = old THEN new ELSE s[i]]

\* convert_image: heic_output
HeicOutput(output_path) ==
  Replace(Replace(Replace(output_path, ".jpg", ".heic"), ".jpeg", ".heic"), ".avif", ".heic")

\* convert_image_av1: avif_output
AvifOutput(output_path) == Replace(output_path, ".heic", ".avif")

\* convert_media: the output_path it builds for each branch
OutVideoAv1(input_path) == Stem(input_path) \o <<"_av1", ".mp4">>
OutVideoHevc(input_path) == Stem(input_path) \o <<"_hevc", ".mp4">>
OutAvif(input_path) == Stem(input_path) \o <<"_compressed", ".avif">>
OutHeic(input_path) == Stem(input_path) \o <<"_compressed", ".heic">>
JpgPath(input_path) == Stem(input_path) \o <<"_compressed", ".jpg">>


\* Tiers of the cascades, named by the encoder each ffmpeg call uses
AV1_NVENC == "av1_nvenc"
HEVC_NVENC == "hevc_nvenc"
LIBX265 == "libx265"
JPEG == "jpeg"

\* the timeout, in seconds, of the subprocess.run call of a tier
Timeout(media_type, tier) ==
  IF media_type = "video" THEN 3600
  ELSE IF tier = LIBX265 THEN 300
  ELSE 60

\* What one subprocess.run of ffmpeg can do: exit 0, exit non-zero (with or
\* without text on stderr), exceed its timeout, or fail to be invoked.
Results == {"ok", "nonzero", "nonzero_silent", "timeout", "fault"}
Raised(res) == res \in {"timeout", "fault"}
NonZero(res) == res \in {"nonzero", "nonzero_silent"}

\* result.stderr of a failed call, or str(e) of the exception it raised
Text(res, tier) == IF res = "nonzero_silent" THEN EmptyStr ELSE <<res, tier>>

\* The size in bytes of a file that an ffmpeg call of job j writes: positive,
\* and the files of different jobs differ in size
OutputSize(j) == j

\* The converted/ directory after an ffmpeg call of job j: a successful call
\* leaves its output file (overwriting, -y), a failed call leaves none.
RunFfmpeg(fls, j, target, res) ==
  IF res = "ok"
    THEN (target :> [size |-> OutputSize(j), job |-> j]) @@ fls
    ELSE fls

Exists(files, path) == path \in DOMAIN files

\* ---------------------------------------------------------------- app.py
\* ios_version: absent (None), or text split at '.', each component an
\* integer literal or not
NoHint == [given |-> FALSE, parts |-> <<>>]
Hint(parts) == [given |-> TRUE, parts |-> parts]
IntPart(n) == [int |-> TRUE, val |-> n]
WordPart == [int |-> FALSE, val |-> 0]
Hints == {NoHint, Hint(<<WordPart>>), Hint(<<IntPart(17), IntPart(2)>>),
          Hint(<<IntPart(15), IntPart(5)>>), Hint(<<IntPart(16)>>)}

\* (mutant) AV1 only above version 16
UseAv1_above(hint) ==
  IF hint.given /\ hint.parts # <<>> /\ hint.parts[1].int
    THEN hint.parts[1].val > 16
    ELSE FALSE

\* upload_media: use_av1 from ios_version
UseAv1(hint) ==
  IF hint.given /\ hint.parts # <<>> /\ hint.parts[1].int
    THEN hint.parts[1].val >= 16
    ELSE FALSE

\* The ios_version query parameter as text: absent (None) or a string of at
\* most MaxVersionLen characters
VersionChars == {"1", "6", "7", ".", "a", "-"}
NoVersion == [given |-> FALSE, text |-> <<>>]
Version(text) == [given |-> TRUE, text |-> text]
Versions ==
  {NoVersion} \cup
  {Version(t) : t \in UNION {[1..n -> VersionChars] : n \in 0..MaxVersionLen}}

Digits == {"1", "6", "7"}
DigitVal(c) == CASE c = "1" -> 1 [] c = "6" -> 6 [] c = "7" -> 7

\* int(s) succeeds: an optional sign, then one digit or more
IsIntLiteral(s) ==
  LET body == IF Len(s) > 0 /\ s[1] = "-" THEN Tail(s) ELSE s
  IN Len(body) > 0 /\ \A i \in 1..Len(body) : body[i] \in Digits

RECURSIVE Decimal(_)
Decimal(ds) ==
  IF ds = <<>> THEN 0
  ELSE 10 * Decimal(SubSeq(ds, 1, Len(ds) - 1)) + DigitVal(ds[Len(ds)])

\* int(s) for a string on which it succeeds
IntValue(s) == IF s[1] = "-" THEN 0 - Decimal(Tail(s)) ELSE Decimal(s)

\* str.split('.'): the components between the dots
RECURSIVE Split(_)
Split(s) ==
  IF \A i \in 1..Len(s) : s[i] # "."
    THEN <<s>>
    ELSE LET k == CHOOSE i \in 1..Len(s) : s[i] = "." /\ \A h \in 1..(i - 1) : s[h] # "."
         IN <<SubSeq(s, 1, k - 1)>> \o Split(SubSeq(s, k + 1, Len(s)))

\* ios_version.split('.') with each component as int() sees it
ParseVersion(v) ==
  IF ~v.given THEN NoHint
  ELSE Hint([i \in 1..Len(Split(v.text)) |->
               IF IsIntLiteral(Split(v.text)[i])
                 THEN IntPart(IntValue(Split(v.text)[i])) ELSE WordPart])

\* The files clients upload: media.filename and len(content)
File(filename, size) == [filename |-> filename, size |-> size]
Mp4 == File(<<"a", ".mp4">>, 4)
Png == File(<<"a", ".png">>, 1)
JpgPng == File(<<"a", ".jpg", ".png">>, 2)
HeicPng == File(<<"a", ".heic", ".png">>, 3)
Files == {Mp4, Png, JpgPng, HeicPng}

\* File names: the stem "a" or none, then at most MaxExts dotted components
Names ==
  {stem \o exts : stem \in {<<"a">>, <<>>},
                  exts \in UNION {[1..n -> ExtTokens] : n \in 0..MaxExts}} \ {<<>>}

VARIABLES
  jobs,      \* JobManager._jobs: job id -> JobData
  lock,      \* JobManager._lock: 0 when free, else the job whose worker holds it
  files,     \* the converted/ directory: path -> file
  w,         \* the background task of each job: its position and locals
  ev,        \* the event loop: the request handler it is running
  uploaded,  \* history: what each upload call was given and returned
  polled,    \* history: the last status a status poll returned, per job
  log,       \* history: the ffmpeg calls made for each job
  sent       \* history: the last answer a download request was given

vars == <<jobs, lock, files, w, ev, uploaded, polled, log, sent>>

NoTask ==
  [pc |-> "none", input_path |-> EmptyStr, use_av1 |-> FALSE, site |-> "",
   output_path |-> EmptyStr, converted_size |-> 0, error |-> EmptyStr]

NoLog ==
  [n |-> 0, calls |-> [t \in {AV1_NVENC, HEVC_NVENC, LIBX265, JPEG} |-> 0],
   ok_paths |-> {}, first_ok |-> FALSE,
   last |-> [tier |-> "", res |-> "", input |-> EmptyStr]]


\* the answer of a handler
NoResp == [kind |-> "", code |-> 0, id |-> 0, status |-> "", original_size_bytes |-> 0,
           converted_size_bytes |-> 0, path |-> EmptyStr]

\* the answer to a download request: its HTTP status code, whether the store
\* held the id asked for, and the status the job had when it was answered
NoAnswer == [code |-> 0, known |-> FALSE, status |-> ""]

\* the event loop between two requests; in a handler: the id asked for, the
\* job object get_job returned, the status read
Idle == [pc |-> "idle", req |-> 0, id |-> 0, status |-> ""]

Init ==
  /\ jobs = <<>>
  /\ lock = 0
  /\ files = <<>>
  /\ w = [j \in JobIds |-> NoTask]
  /\ ev = Idle
  /\ uploaded = <<>>
  /\ polled = [j \in JobIds |-> "none"]
  /\ log = [j \in JobIds |-> NoLog]
  /\ sent = NoAnswer


\* ------------------------------------------------- JobManager operations
Min(S) == CHOOSE x \in S : \A y \in S : x <= y

\* (mutant) an id generator that may return an id it returned before
uuid4_reused(used) == JobIds

\* uuid.uuid4(): an identifier no earlier call returned (the ids are drawn
\* in order, the choice among unused ids being immaterial)
uuid4(used) == IF JobIds \ used = {} THEN {} ELSE {Min(JobIds \ used)}

\* (mutant) create_job returning the id without storing the job
create_job_lost(js, job_id, original_path, original_size) == js

\* create_job: self._jobs[job_id] = job, under the lock
create_job(js, job_id, original_path, original_size) ==
  (job_id :> JobData(job_id, original_path, original_size)) @@ js

\* (mutant) update_status writing the status of every job
update_status_all(js, job_id, status) ==
  [k \in DOMAIN js |-> [js[k] EXCEPT !.status = status]]

\* update_status, under the lock
update_status(js, job_id, status) ==
  IF job_id \in DOMAIN js THEN [js EXCEPT ![job_id].status = status] ELSE js

\* set_completed: its three assignments, made one after the other while the
\* lock is held
set_completed_status(js, job_id) ==
  IF job_id \in DOMAIN js THEN [js EXCEPT ![job_id].status = COMPLETED] ELSE js
set_completed_path(js, job_id, converted_path) ==
  IF job_id \in DOMAIN js
    THEN [js EXCEPT ![job_id].converted_path = converted_path] ELSE js
set_completed_size(js, job_id, converted_size) ==
  IF job_id \in DOMAIN js
    THEN [js EXCEPT ![job_id].converted_size_bytes = converted_size] ELSE js

\* (mutant) set_error puts the job back to PENDING, as a retry would
set_error_status_retry(js, job_id) ==
  IF job_id \in DOMAIN js THEN [js EXCEPT ![job_id].status = PENDING] ELSE js

\* set_error: its two assignments
set_error_status(js, job_id) ==
  IF job_id \in DOMAIN js THEN [js EXCEPT ![job_id].status = ERROR] ELSE js
set_error_message(js, job_id, error_message) ==
  IF job_id \in DOMAIN js
    THEN [js EXCEPT ![job_id].error_message = error_message] ELSE js

\* set_completed and set_error as one operation each, as another caller of
\* the store sees them (the lock is held from the first assignment to the last)
set_completed(js, job_id, converted_path, converted_size) ==
  set_completed_size(
    set_completed_path(set_completed_status(js, job_id), job_id, converted_path),
    job_id, converted_size)

set_error(js, job_id, error_message) ==
  set_error_message(set_error_status(js, job_id), job_id, error_message)

\* ------------------------------------------------------ history of calls
Logged(l, tier, res, target, input) ==
  [n |-> l.n + 1,
   calls |-> [l.calls EXCEPT ![tier] = @ + 1],
   ok_paths |-> IF res = "ok" THEN l.ok_paths \cup {target} ELSE l.ok_paths,
   first_ok |-> IF l.n = 0 THEN res = "ok" ELSE l.first_ok,
   last |-> [tier |-> tier, res |-> res, input |-> input]]

\* ------------------------------------------- process_conversion (worker)
\* (mutant) process_conversion without its else branch: a failed cascade
\* ends the task without set_error
AfterConvertMedia_no_else(wr, success, output_path, error) ==
  IF success
    THEN [wr EXCEPT !.pc = "getsize", !.output_path = output_path, !.site = ""]
    ELSE [wr EXCEPT !.pc = "done", !.site = ""]

\* process_conversion after convert_media has returned (success, output_path,
\* error): on to os.path.getsize, or to set_error(error)
AfterConvertMedia(wr, success, output_path, error) ==
  IF success
    THEN [wr EXCEPT !.pc = "getsize", !.output_path = output_path, !.site = ""]
    ELSE [wr EXCEPT !.pc = "set_error", !.error = error, !.site = ""]

\* (mutant) convert_media taking the JPEG path without asking whether the
\* file exists
ImageTail_no_exists(wr, fls, success, error) ==
  IF ~success
    THEN [wr EXCEPT !.pc = "getsize", !.output_path = JpgPath(wr.input_path), !.site = ""]
    ELSE [wr EXCEPT !.pc = "getsize", !.output_path = OutHeic(wr.input_path), !.site = ""]

\* convert_media, image branch, after its last convert_image call returned:
\* the check for the JPEG file and the final return
ImageTail(wr, fls, success, error) ==
  IF ~success /\ Exists(fls, JpgPath(wr.input_path))
    THEN AfterConvertMedia(wr, TRUE, JpgPath(wr.input_path), EmptyStr)
    ELSE AfterConvertMedia(wr, success, OutHeic(wr.input_path), error)

\* the output_path argument of the convert_image / convert_image_av1 call
\* that convert_media is in
OutputPathArg(wr) ==
  IF wr.site = "av1" THEN OutAvif(wr.input_path) ELSE OutHeic(wr.input_path)

\* convert_media after convert_image_av1 (site "av1") or convert_image (site
\* "heic") has returned (success, error)
ImageReturn(wr, fls, success, error) ==
  IF wr.site = "av1"
    THEN IF success /\ Exists(fls, OutAvif(wr.input_path))
           THEN AfterConvertMedia(wr, TRUE, OutAvif(wr.input_path), EmptyStr)
           ELSE [wr EXCEPT !.pc = HEVC_NVENC, !.site = "heic"]
    ELSE ImageTail(wr, fls, success, error)

\* convert_media up to its first ffmpeg call
EnterConvertMedia(wr) ==
  IF get_media_type(wr.input_path) = "video"
    THEN [wr EXCEPT !.pc = "video"]
    ELSE IF wr.use_av1
      THEN [wr EXCEPT !.pc = AV1_NVENC, !.site = "av1"]
      ELSE [wr EXCEPT !.pc = HEVC_NVENC, !.site = "heic"]

\* (mutant) process_conversion entering convert_media without
\* update_status(PROCESSING)
Start_unmarked(j) ==
  /\ w[j].pc = "start"
  /\ w' = [w EXCEPT ![j] = EnterConvertMedia(w[j])]
  /\ UNCHANGED <<jobs, lock, files, ev, uploaded, polled, log, sent>>

\* process_conversion: update_status(PROCESSING), then into convert_media
Start(j) ==
  /\ w[j].pc = "start"
  /\ lock = 0
  /\ jobs' = update_status(jobs, j, PROCESSING)
  /\ w' = [w EXCEPT ![j] = EnterConvertMedia(w[j])]
  /\ UNCHANGED <<lock, files, ev, uploaded, polled, log, sent>>

\* the encoder of the ffmpeg call the worker is at
Tier(wr) ==
  IF wr.pc = "video" THEN (IF wr.use_av1 THEN AV1_NVENC ELSE HEVC_NVENC) ELSE wr.pc

\* the file that call writes: output_path for the videos and for the JPEG
\* tier, avif_output for AV1 images, heic_output for the two HEVC tiers
Target(wr) ==
  IF wr.pc = "video"
    THEN (IF wr.use_av1 THEN OutVideoAv1(wr.input_path) ELSE OutVideoHevc(wr.input_path))
  ELSE IF wr.pc = AV1_NVENC THEN AvifOutput(OutputPathArg(wr))
  ELSE IF wr.pc = JPEG THEN OutputPathArg(wr)
  ELSE HeicOutput(OutputPathArg(wr))

\* convert_video / convert_video_av1: the single ffmpeg call and the return
\* through convert_media
RunVideo(j, res) ==
  /\ w[j].pc = "video"
  /\ files' = RunFfmpeg(files, j, Target(w[j]), res)
  /\ w' = [w EXCEPT ![j] =
             AfterConvertMedia(w[j], res = "ok", Target(w[j]), Text(res, Tier(w[j])))]
  /\ UNCHANGED <<jobs, lock, ev, uploaded, polled, sent>>

\* convert_image_av1: its ffmpeg call; on a non-zero exit it calls
\* convert_image with the same arguments
RunImageAv1(j, res) ==
  /\ w[j].pc = AV1_NVENC
  /\ files' = RunFfmpeg(files, j, Target(w[j]), res)
  /\ w' = [w EXCEPT ![j] =
             IF NonZero(res) THEN [w[j] EXCEPT !.pc = HEVC_NVENC]
             ELSE ImageReturn(w[j], files', res = "ok", Text(res, AV1_NVENC))]
  /\ UNCHANGED <<jobs, lock, ev, uploaded, polled, sent>>

\* convert_image: the tier after a non-zero exit of a tier
NextTier(tier) ==
  IF tier = HEVC_NVENC THEN LIBX265 ELSE JPEG

\* convert_image: one of its three ffmpeg calls
RunImage(j, res) ==
  /\ w[j].pc \in {HEVC_NVENC, LIBX265, JPEG}
  /\ files' = RunFfmpeg(files, j, Target(w[j]), res)
  /\ w' = [w EXCEPT ![j] =
             IF NonZero(res) /\ w[j].pc # JPEG THEN [w[j] EXCEPT !.pc = NextTier(w[j].pc)]
             ELSE ImageReturn(w[j], files', res = "ok", Text(res, w[j].pc))]
  /\ UNCHANGED <<jobs, lock, ev, uploaded, polled, sent>>

\* history: the call just made enters the log of the job
Record(j, res) ==
  log' = [log EXCEPT ![j] = Logged(log[j], Tier(w[j]), res, Target(w[j]), w[j].input_path)]

\* str(e) of the FileNotFoundError os.path.getsize raises
NoSuchFile(path) == <<"enoent", "getsize">>

\* (mutant) process_conversion going on to set_completed when getsize failed
GetSize_unchecked(j) ==
  /\ w[j].pc = "getsize"
  /\ w' = [w EXCEPT ![j] =
             [w[j] EXCEPT !.pc = "set_completed",
                          !.converted_size = IF Exists(files, w[j].output_path)
                                               THEN files[w[j].output_path].size ELSE 0]]
  /\ UNCHANGED <<jobs, lock, files, ev, uploaded, polled, log, sent>>

\* process_conversion: os.path.getsize(output_path); it raises when the file
\* is not there, and the except clause calls set_error(str(e))
GetSize(j) ==
  /\ w[j].pc = "getsize"
  /\ w' = [w EXCEPT ![j] =
             IF Exists(files, w[j].output_path)
               THEN [w[j] EXCEPT !.pc = "set_completed",
                                 !.converted_size = files[w[j].output_path].size]
               ELSE [w[j] EXCEPT !.pc = "set_error",
                                 !.error = NoSuchFile(w[j].output_path)]]
  /\ UNCHANGED <<jobs, lock, files, ev, uploaded, polled, log, sent>>

\* set_completed: take the lock, job.status = COMPLETED
SetCompletedStatus(j) ==
  /\ w[j].pc = "set_completed"
  /\ lock = 0
  /\ lock' = j
  /\ jobs' = set_completed_status(jobs, j)
  /\ w' = [w EXCEPT ![j].pc = "set_completed_path"]
  /\ UNCHANGED <<files, ev, uploaded, polled, log, sent>>

\* set_completed: job.converted_path = converted_path
SetCompletedPath(j) ==
  /\ w[j].pc = "set_completed_path"
  /\ jobs' = set_completed_path(jobs, j, w[j].output_path)
  /\ w' = [w EXCEPT ![j].pc = "set_completed_size"]
  /\ UNCHANGED <<lock, files, ev, uploaded, polled, log, sent>>

\* set_completed: job.converted_size_bytes = converted_size, release the lock
SetCompletedSize(j) ==
  /\ w[j].pc = "set_completed_size"
  /\ jobs' = set_completed_size(jobs, j, w[j].converted_size)
  /\ lock' = 0
  /\ w' = [w EXCEPT ![j].pc = "done"]
  /\ UNCHANGED <<files, ev, uploaded, polled, log, sent>>

\* set_error: take the lock, job.status = ERROR
SetErrorStatus(j) ==
  /\ w[j].pc = "set_error"
  /\ lock = 0
  /\ lock' = j
  /\ jobs' = set_error_status(jobs, j)
  /\ w' = [w EXCEPT ![j].pc = "set_error_message"]
  /\ UNCHANGED <<files, ev, uploaded, polled, log, sent>>

\* set_error: job.error_message = error_message, release the lock
SetErrorMessage(j) ==
  /\ w[j].pc = "set_error_message"
  /\ jobs' = set_error_message(jobs, j, w[j].error)
  /\ lock' = 0
  /\ w' = [w EXCEPT ![j].pc = "done"]
  /\ UNCHANGED <<files, ev, uploaded, polled, log, sent>>

\* the steps of the worker that call no ffmpeg
Step(j) ==
  \/ Start(j)
  \/ GetSize(j)
  \/ SetCompletedStatus(j)
  \/ SetCompletedPath(j)
  \/ SetCompletedSize(j)
  \/ SetErrorStatus(j)
  \/ SetErrorMessage(j)

\* the worker of job j
Worker(j) ==
  \/ Step(j)
  \/ \E res \in Results : RunVideo(j, res) /\ UNCHANGED log
  \/ \E res \in Results : RunImageAv1(j, res) /\ UNCHANGED log
  \/ \E res \in Results : RunImage(j, res) /\ UNCHANGED log

\* the worker of job j, its ffmpeg calls recorded in the log
WorkerLogged(j) ==
  \/ Step(j)
  \/ \E res \in Results : RunVideo(j, res) /\ Record(j, res)
  \/ \E res \in Results : RunImageAv1(j, res) /\ Record(j, res)
  \/ \E res \in Results : RunImage(j, res) /\ Record(j, res)

\* ----------------------------------------------- request handlers (app.py)
\* The handlers are coroutines without an await between their reads, so the
\* event loop runs one at a time; the workers run in threads beside it.
\* the ids a client may ask about: those upload can return, and 0, which it
\* never returns
AskIds == JobIds \cup {0}

\* the background task upload_media adds for a new job
NewTask(file_path, use_av1) ==
  [NoTask EXCEPT !.pc = "start", !.input_path = file_path, !.use_av1 = use_av1]

\* upload_media for one file and one ios_version: choose the encoder, create
\* the job, add the background task, answer with the job id
UploadWith(media, hint) ==
  /\ lock = 0
  /\ Len(uploaded) < MaxJobs
  /\ \E job_id \in uuid4(DOMAIN jobs) :
       /\ jobs' = create_job(jobs, job_id, media.filename, media.size)
       /\ w' = [w EXCEPT ![job_id] = NewTask(media.filename, UseAv1(hint))]
       /\ uploaded' = Append(uploaded, [job_id |-> job_id, file_path |-> media.filename,
                                        original_size |-> media.size])
  /\ UNCHANGED <<lock, files, polled, log, sent>>

\* upload_media, for any of the files and any ios_version
UploadOf(media_files) ==
  /\ ev.pc = "idle"
  /\ \E media \in media_files, hint \in Hints : UploadWith(media, hint)
  /\ UNCHANGED ev

\* the uploads of the whole system: a video and an image
Upload == UploadOf({Mp4, JpgPng})

\* the uploads of the conversions: every file
UploadMedia == UploadOf(Files)

\* get_job, under the lock: the id of the job object it returns, 0 for None
get_job(js, job_id) == IF job_id \in DOMAIN js THEN job_id ELSE 0

\* get_status / download_media: job = job_manager.get_job(job_id); with None
\* the handler answers 404 and ends
GetJobOf(kind, job_id) ==
  /\ ev.pc = "idle"
  /\ lock = 0
  /\ ev' = IF get_job(jobs, job_id) # 0
             THEN [pc |-> kind, req |-> job_id, id |-> get_job(jobs, job_id), status |-> ""]
             ELSE Idle
  /\ UNCHANGED <<jobs, lock, files, w, uploaded, polled, log>>

GetJob(kind) == \E job_id \in AskIds : GetJobOf(kind, job_id)

StatusGetJob == GetJob("status")
DownloadGetJob == GetJob("download")

\* get_status: the read of job.status
StatusReadStatus ==
  /\ ev.pc = "status"
  /\ ev' = [ev EXCEPT !.pc = "status_sizes", !.status = jobs[ev.id].status]
  /\ UNCHANGED <<jobs, lock, files, w, uploaded, polled, log, sent>>

\* get_status: the body it returns, from the status read before and the two
\* sizes read now
StatusBody(job, status) ==
  [NoResp EXCEPT !.kind = "status", !.code = 200, !.id = job.job_id, !.status = status,
                 !.original_size_bytes = job.original_size_bytes,
                 !.converted_size_bytes = job.converted_size_bytes]

\* get_status: the reads of the two sizes, and the answer
StatusRespond ==
  /\ ev.pc = "status_sizes"
  /\ ev' = Idle
  /\ UNCHANGED <<jobs, lock, files, w, uploaded, log>>

\* history: the status in the body just returned is the last one polled for
\* the id asked for
RecordPoll ==
  polled' = [polled EXCEPT ![ev.req] = StatusBody(jobs[ev.id], ev.status).status]

\* (mutant) download_media without its status test
DownloadReadStatus_any ==
  /\ ev.pc = "download"
  /\ ev' = [ev EXCEPT !.pc = "download_path", !.status = jobs[ev.id].status]
  /\ UNCHANGED <<jobs, lock, files, w, uploaded, polled, log>>

\* download_media: the read of job.status; 400 unless COMPLETED
DownloadReadStatus ==
  /\ ev.pc = "download"
  /\ ev' = IF jobs[ev.id].status # COMPLETED
             THEN Idle
             ELSE [ev EXCEPT !.pc = "download_path", !.status = jobs[ev.id].status]
  /\ UNCHANGED <<jobs, lock, files, w, uploaded, polled, log>>

\* download_media: the answer once the status was COMPLETED: 404 when
\* os.path.exists(job.converted_path) is false, else the FileResponse
DownloadBody(job, status, fls) ==
  [NoResp EXCEPT !.kind = "download", !.id = job.job_id, !.status = status,
                 !.path = job.converted_path,
                 !.code = IF Exists(fls, job.converted_path) THEN 200 ELSE 404]

\* download_media: the read of job.converted_path, and the answer
DownloadServe ==
  /\ ev.pc = "download_path"
  /\ ev' = Idle
  /\ UNCHANGED <<jobs, lock, files, w, uploaded, polled, log>>

\* The answer the running handler gives if it ends now (its last step reads
\* the job's fields as they are in this state)
Answer ==
  IF ev.pc = "status_sizes" THEN StatusBody(jobs[ev.id], ev.status)
  ELSE IF ev.pc = "download_path" THEN DownloadBody(jobs[ev.id], ev.status, files)
  ELSE NoResp

\* history: the answer to the download request for job_id, given with code
\* while the store is as it is now
Reply(code, job_id) ==
  [code |-> code,
   known |-> job_id \in DOMAIN jobs,
   status |-> IF job_id \in DOMAIN jobs THEN jobs[job_id].status ELSE ""]

\* download_media with its answers recorded: 404 when get_job returned None,
\* 400 when the handler ended at the status test, else what DownloadBody says
DownloadGetJobAnswered ==
  \E job_id \in AskIds :
    /\ GetJobOf("download", job_id)
    /\ sent' = IF ev'.pc = "idle" THEN Reply(404, job_id) ELSE sent

DownloadReadStatusAnswered ==
  /\ DownloadReadStatus
  /\ sent' = IF ev'.pc = "idle" THEN Reply(400, ev.req) ELSE sent

DownloadServeAnswered ==
  /\ DownloadServe
  /\ sent' = Reply(Answer.code, ev.req)

\* The whole system: uploads, polls, downloads and the workers
Next ==
  \/ Upload
  \/ StatusGetJob /\ UNCHANGED sent
  \/ StatusReadStatus
  \/ StatusRespond /\ UNCHANGED <<polled, sent>>
  \/ DownloadGetJob /\ UNCHANGED sent
  \/ DownloadReadStatus /\ UNCHANGED sent
  \/ DownloadServe /\ UNCHANGED sent
  \/ \E j \in JobIds : Worker(j)

Spec == Init /\ [][Next]_vars

\* Uploads, status polls and the workers, with the history of what the polls
\* returned
NextPolls ==
  \/ Upload
  \/ StatusGetJob /\ UNCHANGED sent
  \/ StatusReadStatus
  \/ StatusRespond /\ RecordPoll /\ UNCHANGED sent
  \/ \E j \in JobIds : Worker(j)

SpecPolls == Init /\ [][NextPolls]_vars

\* Uploads and the workers alone, each worker scheduled fairly: a thread of
\* the pool that can take a step eventually takes one, and every ffmpeg call
\* returns, fails or times out
NextWork ==
  \/ Upload
  \/ \E j \in JobIds : Worker(j)

SpecFair == Init /\ [][NextWork]_vars /\ \A j \in JobIds : WF_vars(Worker(j))

\* Uploads, polls, downloads and the workers, with the history of the answers
\* the download requests were given
NextAnswers ==
  \/ Upload
  \/ StatusGetJob /\ UNCHANGED sent
  \/ StatusReadStatus
  \/ StatusRespond /\ UNCHANGED <<polled, sent>>
  \/ DownloadGetJobAnswered
  \/ DownloadReadStatusAnswered
  \/ DownloadServeAnswered
  \/ \E j \in JobIds : Worker(j)

SpecAnswers == Init /\ [][NextAnswers]_vars

\* One upload request: the file and the ios_version it carries
Request(media, v) ==
  [pc |-> "upload", req |-> 0, id |-> 0, status |-> "", media |-> media, ios_version |-> v]

\* upload_media for the request the event loop holds; the loop, idle again,
\* keeps the request it served
UploadRequest ==
  /\ ev.pc = "upload"
  /\ UploadWith(ev.media, ParseVersion(ev.ios_version))
  /\ ev' = [ev EXCEPT !.pc = "idle"]

\* the server with one of the requests arrived
InitRequest(requests) ==
  /\ jobs = <<>>
  /\ lock = 0
  /\ files = <<>>
  /\ w = [j \in JobIds |-> NoTask]
  /\ ev \in requests
  /\ uploaded = <<>>
  /\ polled = [j \in JobIds |-> "none"]
  /\ log = [j \in JobIds |-> NoLog]
  /\ sent = NoAnswer

\* The intake of one request, for every ios_version
InitVersions == InitRequest({Request(media, v) : media \in Files, v \in Versions})

NextVersions == UploadRequest

SpecVersions == InitVersions /\ [][NextVersions]_vars

\* The intake of one request and the start of its task, which classifies the
\* file, for every file name
InitTypes ==
  InitRequest({Request(File(name, 1), v) :
                 name \in Names, v \in {NoVersion, Version(<<"1", "6">>)}})

NextTypes ==
  \/ UploadRequest
  \/ \E j \in JobIds : Start(j)

SpecTypes == InitTypes /\ [][NextTypes]_vars

\* ------------------------------------------- the JobManager on its own
\* A call of a JobManager method by any caller: the method, the job_id and,
\* for update_status, the status it passes (PROCESSING, as process_conversion
\* does)
Call(op, job_id, status) ==
  [pc |-> "call", req |-> 0, id |-> job_id, status |-> status, op |-> op]

StoreCalls ==
  {Call("create_job", 0, "")}
    \cup {Call("update_status", job_id, PROCESSING) : job_id \in AskIds}
    \cup {Call(op, job_id, "") : op \in {"set_completed", "set_error", "get_job"},
                                 job_id \in AskIds}

\* the arguments the calls pass
CallPath == OutHeic(Png.filename)
CallSize == OutputSize(1)
CallText == Text("nonzero", JPEG)

\* the store after the call
Called(js, call) ==
  CASE call.op = "create_job" ->
         create_job(js, Min(uuid4(DOMAIN js)), Png.filename, Png.size)
    [] call.op = "update_status" -> update_status(js, call.id, call.status)
    [] call.op = "set_completed" -> set_completed(js, call.id, CallPath, CallSize)
    [] call.op = "set_error" -> set_error(js, call.id, CallText)
    [] call.op = "get_job" -> js

\* a caller makes a call (create_job while there are ids left)
StoreCall ==
  /\ ev.pc = "idle"
  /\ ev' \in {call \in StoreCalls : call.op = "create_job" => uuid4(DOMAIN jobs) # {}}
  /\ UNCHANGED <<jobs, lock, files, w, uploaded, polled, log, sent>>

\* the method runs under the lock and returns; the caller keeps the call
StoreReturn ==
  /\ ev.pc = "call"
  /\ lock = 0
  /\ jobs' = Called(jobs, ev)
  /\ ev' = [ev EXCEPT !.pc = "idle"]
  /\ UNCHANGED <<lock, files, w, uploaded, polled, log, sent>>

InitStore ==
  /\ jobs = <<>>
  /\ lock = 0
  /\ files = <<>>
  /\ w = [j \in JobIds |-> NoTask]
  /\ ev = [Call("", 0, "") EXCEPT !.pc = "idle"]
  /\ uploaded = <<>>
  /\ polled = [j \in JobIds |-> "none"]
  /\ log = [j \in JobIds |-> NoLog]
  /\ sent = NoAnswer

NextStore ==
  \/ StoreCall
  \/ StoreReturn

SpecStore == InitStore /\ [][NextStore]_vars

\* The conversions: uploads and the workers, with the history of their ffmpeg
\* calls (the handlers left out only read)
NextMedia ==
  \/ UploadMedia
  \/ \E j \in JobIds : WorkerLogged(j)

SpecMedia == Init /\ [][NextMedia]_vars

\* ------------------------------------------------------------- claims
Terminal == {COMPLETED, ERROR}

\* the order Pending < Processing < {Completed, Failed}; "none": not polled
Rank(status) ==
  CASE status = "none" -> 0
    [] status = PENDING -> 1
    [] status = PROCESSING -> 2
    [] status \in Terminal -> 3

\* the ordered tiers of the cascade the code runs for a file and a policy
Cascade(input_path, use_av1) ==
  IF get_media_type(input_path) = "video"
    THEN (IF use_av1 THEN <<AV1_NVENC>> ELSE <<HEVC_NVENC>>)
    ELSE (IF use_av1 THEN <<AV1_NVENC, HEVC_NVENC, LIBX265, JPEG>>
                     ELSE <<HEVC_NVENC, LIBX265, JPEG>>)

IndexOf(seq, x) == CHOOSE i \in 1..Len(seq) : seq[i] = x

\* the reason of a job that failed in the getsize of process_conversion
FailedInGetSize(j) == w[j].error = NoSuchFile(w[j].output_path)

\* C1: in every step, for every job, the status last returned by a status
\* poll and the status in the store do not go down in the order
\* Pending < Processing < {Completed, Failed}, and a Completed or Failed
\* one stays what it is.
PollsNeverGoBack ==
  [][\A j \in JobIds :
       /\ Rank(polled'[j]) >= Rank(polled[j])
       /\ polled[j] \in Terminal => polled'[j] = polled[j]
       /\ j \in DOMAIN jobs =>
            /\ j \in DOMAIN jobs'
            /\ Rank(jobs'[j].status) >= Rank(jobs[j].status)
            /\ jobs[j].status \in Terminal => jobs'[j].status = jobs[j].status]_vars

\* C1 witness: polls have returned Completed for one job and Failed for the
\* other
PolledBothEnds == polled[1] = COMPLETED /\ polled[2] = ERROR

\* C2: whenever no store operation is under way, every job has its
\* destination path and size set exactly when it is Completed and a
\* non-empty failure reason exactly when it is Failed.
FieldsMatchStatus ==
  lock = 0 =>
    \A id \in DOMAIN jobs :
      /\ (jobs[id].status = COMPLETED) <=> (jobs[id].converted_path # EmptyStr)
      /\ (jobs[id].status = COMPLETED) <=> (jobs[id].converted_size_bytes # 0)
      /\ (jobs[id].status = ERROR) <=> (jobs[id].error_message # EmptyStr)

\* C3: a status or download handler that has read the status Completed
\* answers with the destination size, respectively the destination path,
\* populated.
ReaderSeesWholeCompletion ==
  /\ (ev.pc = "status_sizes" /\ Answer.status = COMPLETED)
       => Answer.converted_size_bytes # 0
  /\ (ev.pc = "download_path" /\ Answer.status = COMPLETED)
       => Answer.path # EmptyStr

\* C4: every job in the store eventually is Completed or Failed.
EveryJobEnds ==
  \A j \in JobIds :
    (j \in DOMAIN jobs) ~> (j \in DOMAIN jobs /\ jobs[j].status \in Terminal)

\* C4 witness: a job whose conversion work raised a fault (getsize of a file
\* that is not there) has ended Failed
FaultEndedFailed ==
  \E j \in DOMAIN jobs :
    w[j].pc = "done" /\ FailedInGetSize(j) /\ jobs[j].status = ERROR

\* C5: a finished job all of whose ffmpeg calls failed is Failed, its reason
\* is the text of the last call, and it has no destination path or size.
CascadeExhaustion ==
  \A j \in DOMAIN jobs :
    (w[j].pc = "done" /\ log[j].n > 0 /\ log[j].ok_paths = {}) =>
      /\ jobs[j].status = ERROR
      /\ jobs[j].error_message = Text(log[j].last.res, log[j].last.tier)
      /\ jobs[j].converted_path = EmptyStr
      /\ jobs[j].converted_size_bytes = 0

\* C5 witness: an image job under the modern policy has finished Failed after
\* its whole cascade failed, the last call being the JPEG one
ExhaustedImage ==
  \E j \in DOMAIN jobs :
    /\ w[j].pc = "done" /\ w[j].use_av1 /\ log[j].ok_paths = {}
    /\ log[j].calls[AV1_NVENC] > 0 /\ log[j].last.tier = JPEG
    /\ log[j].last.res = "nonzero"
    /\ jobs[j].status = ERROR

\* C6: after a failed call (non-zero exit, timeout or fault) of a tier that
\* is not the last of its cascade, the worker is at the call of the next
\* tier, and the failed call was given the uploaded file.
FailedTierFallsThrough ==
  \A j \in DOMAIN jobs :
    LET c == Cascade(w[j].input_path, w[j].use_av1)
        last == log[j].last
    IN (log[j].n > 0 /\ last.res # "ok" /\ last.tier # c[Len(c)]) =>
         /\ w[j].pc = c[IndexOf(c, last.tier) + 1]
         /\ last.input = jobs[j].original_path

\* C7: a job that ended Failed because of encoding has had a hardware call, a
\* software call and a universal-fallback call.
ThreeTierShape ==
  \A j \in DOMAIN jobs :
    (w[j].pc = "done" /\ jobs[j].status = ERROR /\ ~FailedInGetSize(j)) =>
      /\ log[j].calls[AV1_NVENC] + log[j].calls[HEVC_NVENC] > 0
      /\ log[j].calls[LIBX265] > 0
      /\ log[j].calls[JPEG] > 0

\* C8: when the first ffmpeg call of a job succeeded, the job has no other
\* call.
FirstTierShortCircuits ==
  \A j \in DOMAIN jobs : log[j].first_ok => log[j].n = 1

\* C9: a finished job one of whose ffmpeg calls succeeded, and that did not
\* fail in getsize, is Completed and its destination is a file written by a
\* successful call of that job.
AnySuccessCompletes ==
  \A j \in DOMAIN jobs :
    (w[j].pc = "done" /\ log[j].ok_paths # {} /\ ~FailedInGetSize(j)) =>
      /\ jobs[j].status = COMPLETED
      /\ jobs[j].converted_path \in log[j].ok_paths

\* C10: the ids upload returned are distinct, each maps to a job holding the
\* path and size of its upload, and a status handler works on the job
\* object of the id it was asked for and answers with that upload's size.
JobsKeptApart ==
  /\ \A i, k \in 1..Len(uploaded) :
       i # k => uploaded[i].job_id # uploaded[k].job_id
  /\ \A i \in 1..Len(uploaded) :
       LET u == uploaded[i]
       IN /\ u.job_id \in DOMAIN jobs
          /\ jobs[u.job_id].job_id = u.job_id
          /\ jobs[u.job_id].original_path = u.file_path
          /\ jobs[u.job_id].original_size_bytes = u.original_size
          /\ (ev.pc = "status_sizes" /\ ev.req = u.job_id) =>
               /\ Answer.id = u.job_id
               /\ Answer.original_size_bytes = u.original_size
               /\ Answer.converted_size_bytes = jobs[u.job_id].converted_size_bytes
  /\ ev.pc # "idle" => ev.id = ev.req

\* C10 witness: two uploads of different files were made, and a status
\* handler for the second job is about to answer while the first job is in
\* another state
TwoJobsPolled ==
  /\ Len(uploaded) = 2
  /\ uploaded[1].file_path # uploaded[2].file_path
  /\ ev.pc = "status_sizes" /\ ev.req = 2
  /\ jobs[1].status = COMPLETED /\ Answer.status = PROCESSING

\* C11: the file at the destination of a finished Completed job was written
\* by that job's own conversion, and the size recorded for the job is the
\* size of that file, whatever other jobs were uploaded and converted.
DestinationIsOwn ==
  \A j \in DOMAIN jobs :
    (w[j].pc = "done" /\ jobs[j].status = COMPLETED) =>
      /\ Exists(files, jobs[j].converted_path)
      /\ files[jobs[j].converted_path].job = j
      /\ files[jobs[j].converted_path].size = jobs[j].converted_size_bytes

\* C12: a download request for an id the store does not hold is answered
\* 404, one for a job that is Pending, Processing or Failed is answered 400,
\* and only one for a Completed job is answered with the file (200); no step
\* of a status or download handler changes the store, the files or a worker.
DownloadAnswers ==
  /\ [](/\ (sent.code # 0 /\ ~sent.known) => sent.code = 404
        /\ sent.status \in {PENDING, PROCESSING, ERROR} => sent.code = 400
        /\ sent.code = 200 => (sent.known /\ sent.status = COMPLETED))
  /\ [][(ev' # ev \/ sent' # sent) => UNCHANGED <<jobs, lock, files, w>>]_vars

\* C12 witness: a download for a Failed job was answered 400, and the next
\* download, for a Completed job, is about to be answered with its file
RefusedThenServed ==
  /\ sent = [code |-> 400, known |-> TRUE, status |-> ERROR]
  /\ ev.pc = "download_path" /\ jobs[ev.id].status = COMPLETED
  /\ Answer.code = 200

\* C13: the upload of a request with any ios_version, absent or not, can be
\* made and creates the job; its task uses AV1 exactly when the version is
\* given and its text before the first '.' is an integer of at least 16.
PolicyFromVersion ==
  /\ [](ev.pc = "upload" => ENABLED UploadRequest)
  /\ [][ev.pc = "upload" =>
          LET v == ev.ios_version
              dots == {i \in 1..Len(v.text) : v.text[i] = "."}
              lead == IF dots = {} THEN v.text ELSE SubSeq(v.text, 1, Min(dots) - 1)
          IN /\ Len(uploaded') = 1
             /\ jobs'[uploaded'[1].job_id].status = PENDING
             /\ w'[uploaded'[1].job_id].use_av1 =
                  (v.given /\ IsIntLiteral(lead) /\ IntValue(lead) >= 16)]_vars

\* C13 witness: the request with ios_version "16" was taken in and its task
\* uses AV1
Version16TakenIn ==
  /\ ev.pc = "idle" /\ ev.ios_version = Version(<<"1", "6">>)
  /\ Len(uploaded) = 1 /\ w[uploaded[1].job_id].use_av1

\* C14: the task of a file starts as a video's when the last dotted
\* component of the name, in any case, is in the video list, as an image's
\* when it is in the image list, and as a video's for every other name,
\* among them the names without an extension.
TypeFromExtension ==
  \A j \in DOMAIN jobs :
    w[j].pc # "start" =>
      LET name == w[j].input_path
          ext == IF Len(name) >= 2 THEN name[Len(name)] ELSE ""
          kind == IF w[j].pc = "video" THEN "video" ELSE "image"
      IN /\ ext \in VideoExtensions \cup {".MP4"} => kind = "video"
         /\ ext \in ImageExtensions \cup {".Png", ".HEIC"} => kind = "image"
         /\ ext \notin ExtTokens \ {".avif", ".xyz"} => kind = "video"
         /\ kind = "image" => w[j].pc = (IF w[j].use_av1 THEN AV1_NVENC ELSE HEVC_NVENC)

\* C14 witness: the task of a.mp4.HEIC has started as an image's
UpperCaseImageStarted ==
  \E j \in DOMAIN jobs :
    /\ w[j].input_path = <<"a", ".mp4", ".HEIC">>
    /\ w[j].pc = HEVC_NVENC /\ jobs[j].status = PROCESSING

\* C15: no call of a JobManager method changes the status, the destination
\* path and size or the failure reason of a job that is Completed or Failed,
\* and update_status(PROCESSING) changes the status of a Pending job only.
StoreKeepsTerminal ==
  [][\A j \in DOMAIN jobs :
       /\ jobs[j].status \in Terminal =>
            /\ jobs'[j].status = jobs[j].status
            /\ jobs'[j].converted_path = jobs[j].converted_path
            /\ jobs'[j].converted_size_bytes = jobs[j].converted_size_bytes
            /\ jobs'[j].error_message = jobs[j].error_message
       /\ (ev.pc = "call" /\ ev.op = "update_status" /\ ev.status = PROCESSING
             /\ jobs[j].status # PENDING) =>
            jobs'[j].status = jobs[j].status]_vars

\* C16: a job calls each encoder at most once, so the timeouts of its calls
\* add up to no more than the timeouts of the tiers of its cascade, one each.
TierCalledOnce ==
  \A j \in DOMAIN jobs :
    LET kind == get_media_type(w[j].input_path)
        c == Cascade(w[j].input_path, w[j].use_av1)
        tiers == {c[i] : i \in 1..Len(c)}
        spent == log[j].calls[AV1_NVENC] * Timeout(kind, AV1_NVENC)
                   + log[j].calls[HEVC_NVENC] * Timeout(kind, HEVC_NVENC)
                   + log[j].calls[LIBX265] * Timeout(kind, LIBX265)
                   + log[j].calls[JPEG] * Timeout(kind, JPEG)
        bound == (IF AV1_NVENC \in tiers THEN Timeout(kind, AV1_NVENC) ELSE 0)
                   + (IF HEVC_NVENC \in tiers THEN Timeout(kind, HEVC_NVENC) ELSE 0)
                   + (IF LIBX265 \in tiers THEN Timeout(kind, LIBX265) ELSE 0)
                   + (IF JPEG \in tiers THEN Timeout(kind, JPEG) ELSE 0)
    IN /\ \A t \in DOMAIN log[j].calls : log[j].calls[t] <= 1
       /\ spent <= bound

\* C17: an ffmpeg call is made for a job only while the job is Processing,
\* and a job becomes Completed only from Processing, by the worker that has
\* had a successful call and has read a size for the path convert_media
\* returned.
WorkerOrdering ==
  [][\A j \in JobIds :
       /\ log'[j].n > log[j].n =>
            (j \in DOMAIN jobs /\ jobs[j].status = PROCESSING /\ jobs'[j].status = PROCESSING)
       /\ (j \in DOMAIN jobs /\ jobs[j].status # COMPLETED /\ jobs'[j].status = COMPLETED) =>
            /\ jobs[j].status = PROCESSING
            /\ w[j].pc = "set_completed"
            /\ log[j].ok_paths # {}
            /\ w[j].output_path # EmptyStr /\ w[j].converted_size > 0]_vars

\* C17 witness: a job is Completed after two ffmpeg calls, the first failed
CompletedAfterFallback ==
  \E j \in DOMAIN jobs :
    /\ w[j].pc = "done" /\ jobs[j].status = COMPLETED
    /\ log[j].n = 2 /\ ~log[j].first_ok

\* C18: a job for which convert_media returned a path but no size could be
\* read is never Completed and never gets a destination path or size, and
\* once its task has ended it is Failed with the text of the getsize fault.
FaultAfterSuccessFails ==
  \A j \in DOMAIN jobs :
    (w[j].output_path # EmptyStr /\ w[j].converted_size = 0 /\ w[j].pc # "getsize") =>
      /\ jobs[j].status # COMPLETED
      /\ jobs[j].converted_path = EmptyStr
      /\ jobs[j].converted_size_bytes = 0
      /\ w[j].pc = "done" =>
           /\ jobs[j].status = ERROR
           /\ jobs[j].error_message = NoSuchFile(w[j].output_path)

\* C18 witness: the task of a.jpg.png under the legacy policy has ended after
\* hevc_nvenc succeeded and getsize found no file at the returned path
JpgStemEndedFailed ==
  \E j \in DOMAIN jobs :
    /\ w[j].pc = "done" /\ w[j].input_path = JpgPng.filename /\ ~w[j].use_av1
    /\ log[j].ok_paths # {} /\ w[j].output_path \notin log[j].ok_paths
    /\ w[j].converted_size = 0 /\ jobs[j].status = ERROR

\* C19: a call of update_status, set_completed or set_error with an id the
\* store does not hold leaves the store as it was; with an id it holds, the
\* store keeps its ids and every other job is as it was; get_job leaves the
\* store as it was.
StoreFrame ==
  [][(ev.pc = "call" /\ ev'.pc = "idle") =>
       /\ (ev.op \in {"update_status", "set_completed", "set_error"}
             /\ ev.id \notin DOMAIN jobs) => jobs' = jobs
       /\ (ev.op \in {"update_status", "set_completed", "set_error"}
             /\ ev.id \in DOMAIN jobs) =>
            /\ DOMAIN jobs' = DOMAIN jobs
            /\ \A k \in DOMAIN jobs \ {ev.id} : jobs'[k] = jobs[k]
            /\ jobs'[ev.id].job_id = jobs[ev.id].job_id
            /\ jobs'[ev.id].original_path = jobs[ev.id].original_path
            /\ jobs'[ev.id].original_size_bytes = jobs[ev.id].original_size_bytes
       /\ ev.op = "get_job" => jobs' = jobs]_vars

\* C19 witness: set_error was called with an id the store does not hold
\* while it held one job, Completed, and has returned
UnknownIdIgnored ==
  /\ ev.pc = "idle" /\ ev.op = "set_error" /\ ev.id = 2
  /\ DOMAIN jobs = {1} /\ jobs[1].status = COMPLETED
  /\ jobs[1].error_message = EmptyStr

\* C20: the step in which upload returns an id leaves the job of that id in
\* the store as JobData made it (Pending, the upload's size, no destination,
\* no reason) with its task not started; the job is still so while its task
\* has not started; no step removes a job; and get_job finds every id upload
\* returned, so a status poll for it is not answered 404.
JobStoredBeforeIdReturned ==
  /\ [](/\ \A i \in 1..Len(uploaded) : get_job(jobs, uploaded[i].job_id) # 0
        /\ \A j \in DOMAIN jobs :
             w[j].pc = "start" =>
               jobs[j] = JobData(j, w[j].input_path, jobs[j].original_size_bytes))
  /\ [][/\ DOMAIN jobs \subseteq DOMAIN jobs'
        /\ Len(uploaded') > Len(uploaded) =>
             LET u == uploaded'[Len(uploaded')]
             IN /\ u.job_id \in DOMAIN jobs' \ DOMAIN jobs
                /\ jobs'[u.job_id] = JobData(u.job_id, u.file_path, u.original_size)
                /\ w'[u.job_id].pc = "start"]_vars

\* C20 witness: a status poll for the second job is about to answer Pending,
\* its task not started, while the first job has Failed
PendingPolledBeforeStart ==
  /\ Len(uploaded) = 2
  /\ ev.pc = "status_sizes" /\ ev.req = uploaded[2].job_id
  /\ Answer.code = 200 /\ Answer.status = PENDING
  /\ w[uploaded[2].job_id].pc = "start"
  /\ jobs[uploaded[1].job_id].status = ERROR

TypeOK ==
  /\ \A id \in DOMAIN jobs : jobs[id].status \in JobStatus
  /\ lock \in JobIds \cup {0}

====
